---- MODULE Spec2Model ----
(***************************************************************************)
(* Model of the Bluesky post reporter: the web service (app.py), the       *)
(* command-line reporter (bluesky_report.py) and the handle helper         *)
(* (resolve_handle.py).                                                    *)
(*                                                                         *)
(* Strings are sequences of one-character strings.  A pagination cursor    *)
(* is an integer: NoCursor is an absent cursor (None), EmptyCursor the     *)
(* empty string, and a positive number an opaque non-empty token.          *)
(***************************************************************************)
EXTENDS Integers, Sequences, FiniteSets, TLC

VARIABLES
    entry,      \* which entry point runs: "web", "cli" or "helper"
    arg,        \* the handle (web, helper) or the positional DID argument (cli)
    fmt,        \* --format as typed on the command line
    limit,      \* the requested limit
    pc,         \* position of the run
    actor,      \* the identifier handed to fetch_user_posts
    handle,     \* the handle the summaries are built with
    posts,      \* fetch_user_posts: the accumulator
    cursor,     \* fetch_user_posts: the cursor variable
    req,        \* params of the feed request in flight / last issued
    lastResp,   \* the last feed response processed
    reqCount,   \* number of feed requests issued so far
    delivered,  \* every entry received in a successful non-empty page, in order
    shortPage,  \* some page so far held fewer entries than were asked for
    lookups,    \* the identity lookups issued: <<actor, outcome>>
    report,     \* what the entry point hands back
    exitCode,   \* the process exit status (cli, helper), NoExit while running
    fault,      \* what cut the run short: "none", "usage", "baddid",
                \* "interrupt" or "exception"
    feedLen,    \* simulated feed: the number of entries of the author's feed
    feedStyle,  \* simulated feed: when the server returns a cursor
    fnIn,       \* the argument of a function run on its own
    fnOut       \* its result: [done, val]

vars == <<entry, arg, fmt, limit, pc, actor, handle, posts, cursor, req,
          lastResp, reqCount, delivered, shortPage, lookups, report, exitCode,
          fault, feedLen, feedStyle, fnIn, fnOut>>

-----------------------------------------------------------------------------
(* Bounds of the model *)

MaxPages == 2       \* fetch runs: limits around 0, PageCap, ..., MaxPages*PageCap
MaxOff == 1         \* ... at distance at most MaxOff
MaxExtra == 1       \* upstream may answer up to MaxExtra entries more than asked
MaxMainLimit == 3   \* report runs: limits 0..MaxMainLimit
MaxBody == 2        \* handles: characters after the prefix
MaxUri == 3         \* post URIs: length
MaxMult == 60       \* elapsed times: multiples of a unit
MaxDelta == 1       \* ... give or take MaxDelta seconds

(* Program constants *)

PageCap == 100
NoCursor == -1
EmptyCursor == 0
NoExit == -1

-----------------------------------------------------------------------------
(* Strings *)

Str_did == <<"d", "i", "d", ":">>
Str_bsky == <<".", "b", "s", "k", "y", ".", "s", "o", "c", "i", "a", "l">>
Str_Unknown == <<"U", "n", "k", "n", "o", "w", "n">>
Str_profile ==
    <<"h", "t", "t", "p", "s", ":", "/", "/", "b", "s", "k", "y", ".", "a", "p", "p", "/", "p", "r", "o", "f", "i", "l", "e", "/">>
Str_post == <<"/", "p", "o", "s", "t", "/">>

StartsWith(s, p) == Len(s) >= Len(p) /\ SubSeq(s, 1, Len(p)) = p

Contains(s, c) == \E i \in 1..Len(s) : s[i] = c

Min(a, b) == IF a < b THEN a ELSE b

RECURSIVE LStrip(_)
LStrip(s) == IF s # <<>> /\ Head(s) = " " THEN LStrip(Tail(s)) ELSE s

RECURSIVE RStrip(_)
RStrip(s) ==
    IF s # <<>> /\ s[Len(s)] = " " THEN RStrip(SubSeq(s, 1, Len(s) - 1)) ELSE s

Strip(s) == RStrip(LStrip(s))

(* s.split(c)[-1]: what follows the last c, or all of s when it holds none *)
RECURSIVE LastSegment(_, _)
LastSegment(s, c) ==
    IF s = <<>> \/ s[Len(s)] = c THEN <<>>
    ELSE Append(LastSegment(SubSeq(s, 1, Len(s) - 1), c), s[Len(s)])

-----------------------------------------------------------------------------
(* Handle normalisation *)

(* app.py resolve_handle: the clean-up of the handle before the lookup *)
NormalizeHandle(h) ==
    LET s == Strip(h)
        t == IF StartsWith(s, <<"@">>) THEN Tail(s) ELSE s
    IN  IF ~Contains(t, ".") THEN t \o Str_bsky ELSE t

(* resolve_handle.py main: the same, without the strip *)
HelperNormalize(h) ==
    LET t == IF StartsWith(h, <<"@">>) THEN Tail(h) ELSE h
    IN  IF ~Contains(t, ".") THEN t \o Str_bsky ELSE t

-----------------------------------------------------------------------------
(* extract_post_summary: the post URL *)

PostId(uri) == IF uri # <<>> THEN LastSegment(uri, "/") ELSE <<>>

WebPostUrl(uri, h) ==
    IF PostId(uri) # <<>> /\ h # <<>>
    THEN Str_profile \o h \o Str_post \o PostId(uri)
    ELSE <<>>

CliPostUrl(uri, h) ==
    IF PostId(uri) # <<>> /\ h # Str_Unknown
    THEN Str_profile \o h \o Str_post \o PostId(uri)
    ELSE <<>>

-----------------------------------------------------------------------------
(* _get_relative_time, for a whole number of seconds between dt and now *)

Ago(n, unit) == [text |-> unit, n |-> n]
JustNow == [text |-> "just now", n |-> 0]
AbsoluteDate == [text |-> "%b %d, %Y", n |-> 0]

(* the buckets, their upper ends included *)
RelativeTimeInclusive(seconds) ==
    IF seconds <= 60 THEN JustNow
    ELSE IF seconds <= 3600 THEN
        LET minutes == seconds \div 60
        IN  IF minutes > 1 THEN Ago(minutes, "m ago") ELSE Ago(1, "m ago")
    ELSE IF seconds <= 86400 THEN
        LET hours == seconds \div 3600
        IN  IF hours > 1 THEN Ago(hours, "h ago") ELSE Ago(1, "h ago")
    ELSE IF seconds <= 604800 THEN
        LET days == seconds \div 86400
        IN  IF days > 1 THEN Ago(days, "d ago") ELSE Ago(1, "d ago")
    ELSE AbsoluteDate

RelativeTime(seconds) ==
    IF seconds < 60 THEN JustNow
    ELSE IF seconds < 3600 THEN
        LET minutes == seconds \div 60
        IN  IF minutes > 1 THEN Ago(minutes, "m ago") ELSE Ago(1, "m ago")
    ELSE IF seconds < 86400 THEN
        LET hours == seconds \div 3600
        IN  IF hours > 1 THEN Ago(hours, "h ago") ELSE Ago(1, "h ago")
    ELSE IF seconds < 604800 THEN
        LET days == seconds \div 86400
        IN  IF days > 1 THEN Ago(days, "d ago") ELSE Ago(1, "d ago")
    ELSE AbsoluteDate

-----------------------------------------------------------------------------
(* The upstream API *)

ProfileDid == Str_did \o <<"x">>
ProfileHandle == <<"a", ".", "b">>

(* getProfile: a profile with or without a handle field, a request error   *)
(* (timeout, connection error, non-2xx), or a body that is no JSON object  *)
LookupOutcomes == {"ok", "nohandle", "error", "garbage"}

(* The sizes a feed page may have when q entries were asked for: empty,    *)
(* a single entry, one entry short, as asked, or more than asked           *)
PageSizes(q) == {n \in 0..(q + MaxExtra) : n <= 1 \/ n >= q - 1}

(* getAuthorFeed answering request number k that asked for q entries: a    *)
(* page with or without a cursor, a request error, or a body that is no    *)
(* JSON object                                                             *)
FeedResponses(k, q) ==
    [kind : {"page"}, size : PageSizes(q), cursor : {NoCursor, EmptyCursor, k}]
    \cup {[kind |-> "error", size |-> 0, cursor |-> NoCursor],
          [kind |-> "garbage", size |-> 0, cursor |-> NoCursor]}

(* The entries of a page of n entries that follow entry number d *)
Page(d, n) == [i \in 1..n |-> d + i]

(* A feed of feedLen entries, served in upstream order in pages of at most *)
(* PageCap entries; the cursor is the number of entries served so far      *)
FeedOffset(rq) == IF rq.cursor = NoCursor THEN 0 ELSE rq.cursor

FeedPageSize(rq) ==
    LET left == feedLen - FeedOffset(rq)
    IN  IF left <= 0 THEN 0 ELSE Min(Min(rq.limit, PageCap), left)

FeedAnswer(rq) ==
    LET n == FeedPageSize(rq)
        more == IF feedStyle = "whenMore" THEN FeedOffset(rq) + n < feedLen
                ELSE n > 0
    IN  [kind |-> "page", size |-> n,
         cursor |-> IF more THEN FeedOffset(rq) + n ELSE NoCursor]

NoRequest == [limit |-> 0, cursor |-> NoCursor]
NoResponse == [kind |-> "none", size |-> 0, cursor |-> NoCursor]
NoReport == [kind |-> "none", posts |-> <<>>, post_count |-> 0]
NoResult == [done |-> FALSE, val |-> <<>>]

-----------------------------------------------------------------------------
(* fetch_user_posts *)

Truthy(c) == c # NoCursor /\ c # EmptyCursor

(* the loop test, letting one request too many through *)
LoopTestInclusive(ps, lim) == Len(ps) <= lim

(* while len(posts) < limit *)
LoopTest(ps, lim) == Len(ps) < lim

(* the params, the cursor forgotten *)
RequestParamsNoCursor(ps, lim, cur) ==
    [limit |-> Min(PageCap, lim - Len(ps)), cursor |-> NoCursor]

(* the params, always asking for a full page *)
RequestParamsFullPage(ps, lim, cur) ==
    [limit |-> PageCap, cursor |-> IF Truthy(cur) THEN cur ELSE NoCursor]

(* the params of the request *)
RequestParams(ps, lim, cur) ==
    [limit |-> Min(PageCap, lim - Len(ps)),
     cursor |-> IF Truthy(cur) THEN cur ELSE NoCursor]

(* the loop body, trying again after a request error *)
LoopBodyRetries(ps, cur, r, page) ==
    IF r.kind = "error" THEN [posts |-> ps, cursor |-> cur, ctl |-> "continue"]
    ELSE IF r.kind = "garbage" THEN [posts |-> ps, cursor |-> cur, ctl |-> "raise"]
    ELSE IF page = <<>> THEN [posts |-> ps, cursor |-> cur, ctl |-> "break"]
    ELSE [posts |-> ps \o page, cursor |-> r.cursor,
          ctl |-> IF ~Truthy(r.cursor) THEN "break" ELSE "continue"]

(* the body of the try and the except clause: the accumulator and the      *)
(* cursor after response r with the entries page, and how the loop goes on *)
LoopBody(ps, cur, r, page) ==
    IF r.kind = "error" THEN [posts |-> ps, cursor |-> cur, ctl |-> "break"]
    ELSE IF r.kind = "garbage" THEN [posts |-> ps, cursor |-> cur, ctl |-> "raise"]
    ELSE IF page = <<>> THEN [posts |-> ps, cursor |-> cur, ctl |-> "break"]
    ELSE [posts |-> ps \o page, cursor |-> r.cursor,
          ctl |-> IF ~Truthy(r.cursor) THEN "break" ELSE "continue"]

(* the test of the lookup's result, left out *)
WebAbortNever(success) == FALSE

(* get_user_report: the test of the lookup's result *)
WebAbort(success) == ~success

(* the test of the DID, accepting anything *)
ValidDidAny(a) == TRUE

(* main: the test of the DID *)
ValidDid(a) == StartsWith(a, Str_did)

(* main: the formats argparse accepts *)
FormatChoices == {"json", "csv"}

Summaries(ps, h) == [i \in 1..Len(ps) |-> [id |-> ps[i], handle |-> h]]

-----------------------------------------------------------------------------
(* The steps of a run *)

inputVars == <<entry, arg, fmt, limit, feedLen, feedStyle, fnIn>>
fetchVars == <<posts, cursor, req, lastResp, reqCount, delivered, shortPage>>
callerVars == <<actor, handle, lookups, report, exitCode, fault, fnOut>>

(* get_user_report: resolve_handle and the test of its success *)
WebResolve ==
    /\ entry = "web" /\ pc = "start"
    /\ \E o \in LookupOutcomes :
        /\ lookups' = Append(lookups, <<NormalizeHandle(arg), o>>)
        /\ IF o = "garbage"
           THEN /\ report' = [NoReport EXCEPT !.kind = "raised"]
                /\ pc' = "done" /\ UNCHANGED <<actor, handle>>
           ELSE IF WebAbort(o \in {"ok", "nohandle"})
           THEN /\ report' = [NoReport EXCEPT !.kind = "error"]
                /\ pc' = "done" /\ UNCHANGED <<actor, handle>>
           ELSE /\ actor' = ProfileDid
                /\ handle' = IF o = "ok" THEN ProfileHandle ELSE <<>>
                /\ pc' = "loop" /\ report' = report
    /\ UNCHANGED <<inputVars, fetchVars, exitCode, fault, fnOut>>

(* main: parser.parse_args() *)
CliParse ==
    /\ entry = "cli" /\ pc = "start"
    /\ IF fmt \in FormatChoices
       THEN pc' = "validate" /\ UNCHANGED <<exitCode, fault>>
       ELSE pc' = "exit" /\ exitCode' = 2 /\ fault' = "usage"
    /\ UNCHANGED <<inputVars, fetchVars, actor, handle, lookups, report, fnOut>>

(* main: the validation of the DID *)
CliValidate ==
    /\ entry = "cli" /\ pc = "validate"
    /\ IF ~ValidDid(arg)
       THEN pc' = "exit" /\ exitCode' = 1 /\ fault' = "baddid"
       ELSE pc' = "resolve" /\ UNCHANGED <<exitCode, fault>>
    /\ UNCHANGED <<inputVars, fetchVars, actor, handle, lookups, report, fnOut>>

(* generate_report: resolve_handle(did), which catches every Exception *)
CliResolve ==
    /\ entry = "cli" /\ pc = "resolve"
    /\ \E o \in LookupOutcomes :
        /\ lookups' = Append(lookups, <<arg, o>>)
        /\ handle' = IF o = "ok" THEN ProfileHandle ELSE Str_Unknown
    /\ actor' = arg
    /\ pc' = "loop"
    /\ UNCHANGED <<inputVars, fetchVars, report, exitCode, fault, fnOut>>

(* fetch_user_posts: the loop test succeeds and the request is issued *)
SendRequest ==
    /\ pc = "loop" /\ LoopTest(posts, limit)
    /\ req' = RequestParams(posts, limit, cursor)
    /\ reqCount' = reqCount + 1
    /\ pc' = "await"
    /\ UNCHANGED <<inputVars, callerVars, posts, cursor, lastResp, delivered,
                   shortPage>>

(* fetch_user_posts: the loop test fails and the posts are returned *)
LoopExit ==
    /\ pc = "loop" /\ ~LoopTest(posts, limit)
    /\ pc' = "fetched"
    /\ UNCHANGED <<inputVars, fetchVars, callerVars>>

(* fetch_user_posts: response r, holding the entries page, is processed *)
Process(r, page) ==
    LET b == LoopBody(posts, cursor, r, page)
    IN  /\ lastResp' = r
        /\ posts' = b.posts
        /\ cursor' = b.cursor
        /\ pc' = CASE b.ctl = "continue" -> "loop"
                   [] b.ctl = "break" -> "fetched"
                   [] OTHER -> "raised"
        /\ delivered' = IF r.kind = "page" THEN delivered \o page ELSE delivered
        /\ shortPage' = (shortPage \/ (r.kind = "page" /\ page # <<>>
                                                     /\ Len(page) < req.limit))
        /\ UNCHANGED <<inputVars, callerVars, req, reqCount>>

(* the request is answered by an upstream that may do anything *)
ReceiveResponse ==
    /\ pc = "await"
    /\ \E r \in FeedResponses(reqCount, req.limit) :
        Process(r, Page(Len(delivered), r.size))

(* the request is answered from the simulated feed *)
FeedServe ==
    /\ pc = "await"
    /\ Process(FeedAnswer(req), Page(FeedOffset(req), FeedPageSize(req)))

(* get_user_report: an exception of fetch_user_posts is not caught *)
WebRaise ==
    /\ entry = "web" /\ pc = "raised"
    /\ report' = [NoReport EXCEPT !.kind = "raised"]
    /\ pc' = "done"
    /\ UNCHANGED <<inputVars, fetchVars, actor, handle, lookups, exitCode, fault,
                   fnOut>>

(* main: except Exception *)
CliExcept ==
    /\ entry = "cli" /\ pc = "raised"
    /\ pc' = "exit" /\ exitCode' = 1 /\ fault' = "exception"
    /\ UNCHANGED <<inputVars, fetchVars, actor, handle, lookups, report, fnOut>>

(* get_user_report: the summaries and the result *)
WebFinish ==
    /\ entry = "web" /\ pc = "fetched"
    /\ report' = [kind |-> "success", posts |-> Summaries(posts, handle),
                  post_count |-> Len(Summaries(posts, handle))]
    /\ pc' = "done"
    /\ UNCHANGED <<inputVars, fetchVars, actor, handle, lookups, exitCode, fault,
                   fnOut>>

(* generate_report: the summaries and the formatted output *)
CliFormat ==
    /\ entry = "cli" /\ pc = "fetched"
    /\ IF fmt \in {"json", "csv"}
       THEN /\ report' = [kind |-> fmt, posts |-> Summaries(posts, handle),
                          post_count |-> Len(Summaries(posts, handle))]
            /\ pc' = "output" /\ UNCHANGED <<exitCode, fault>>
       ELSE /\ report' = report /\ pc' = "exit"
            /\ exitCode' = 1 /\ fault' = "exception"
    /\ UNCHANGED <<inputVars, fetchVars, actor, handle, lookups, fnOut>>

(* main: the report is printed or written; writing the file may fail *)
CliOutput ==
    /\ entry = "cli" /\ pc = "output"
    /\ \E ok \in BOOLEAN :
        /\ exitCode' = IF ok THEN 0 ELSE 1
        /\ fault' = IF ok THEN fault ELSE "exception"
    /\ pc' = "exit"
    /\ UNCHANGED <<inputVars, fetchVars, actor, handle, lookups, report, fnOut>>

(* main: KeyboardInterrupt inside the try block *)
CliInterrupt ==
    /\ entry = "cli" /\ pc \in {"resolve", "loop", "await", "fetched", "output"}
    /\ pc' = "exit" /\ exitCode' = 1 /\ fault' = "interrupt"
    /\ UNCHANGED <<inputVars, fetchVars, actor, handle, lookups, report, fnOut>>

(* resolve_handle.py main, run with an argument: the clean-up, then        *)
(* resolve_handle, which exits with 1 on a request error                   *)
HelperMain ==
    /\ entry = "helper" /\ pc = "start"
    /\ \E o \in LookupOutcomes :
        /\ lookups' = Append(lookups, <<HelperNormalize(arg), o>>)
        /\ exitCode' = IF o \in {"ok", "nohandle"} THEN 0 ELSE 1
        /\ fault' = IF o \in {"ok", "nohandle"} THEN fault ELSE "exception"
    /\ pc' = "exit"
    /\ UNCHANGED <<inputVars, fetchVars, actor, handle, report, fnOut>>

(* extract_post_summary: the post URL of one entry *)
ExtractPostSummary ==
    /\ pc = "call" /\ ~fnOut.done
    /\ fnOut' = [done |-> TRUE,
                 val |-> IF fnIn.variant = "web"
                         THEN WebPostUrl(fnIn.uri, fnIn.handle)
                         ELSE CliPostUrl(fnIn.uri, fnIn.handle)]
    /\ pc' = "return"
    /\ UNCHANGED <<inputVars, fetchVars, actor, handle, lookups, report, exitCode,
                   fault>>

(* _get_relative_time *)
GetRelativeTime ==
    /\ pc = "call" /\ ~fnOut.done
    /\ fnOut' = [done |-> TRUE, val |-> RelativeTime(fnIn)]
    /\ pc' = "return"
    /\ UNCHANGED <<inputVars, fetchVars, actor, handle, lookups, report, exitCode,
                   fault>>

-----------------------------------------------------------------------------
(* The report runs: web get_user_report and the command-line main, against *)
(* an upstream that may do anything                                         *)

FetchIdle ==
    /\ posts = <<>>
    /\ cursor = NoCursor
    /\ req = NoRequest
    /\ lastResp = NoResponse
    /\ reqCount = 0
    /\ delivered = <<>>
    /\ shortPage = FALSE

CallerIdle ==
    /\ lookups = <<>>
    /\ report = NoReport
    /\ exitCode = NoExit
    /\ fault = "none"

FeedIdle == feedLen = 0 /\ feedStyle = "none"

FnIdle == fnIn = <<>> /\ fnOut = NoResult

MainLimits == 0..MaxMainLimit

MainArgs == {<<" ", "@", "a">>, Str_did \o <<"x">>}

Init ==
    /\ entry \in {"web", "cli"}
    /\ arg \in MainArgs
    /\ fmt \in IF entry = "cli" THEN {"json", "csv", "xml"} ELSE {"json"}
    /\ limit \in MainLimits
    /\ pc = "start"
    /\ actor = <<>>
    /\ handle = <<>>
    /\ FetchIdle /\ CallerIdle /\ FeedIdle /\ FnIdle

Next ==
    \/ WebResolve
    \/ CliParse
    \/ CliValidate
    \/ CliResolve
    \/ SendRequest
    \/ LoopExit
    \/ ReceiveResponse
    \/ WebRaise
    \/ CliExcept
    \/ WebFinish
    \/ CliFormat
    \/ CliOutput
    \/ CliInterrupt

Spec == Init /\ [][Next]_vars

-----------------------------------------------------------------------------
(* fetch_user_posts alone, against an upstream that may do anything.  The *)
(* loop is the same text in app.py and in bluesky_report.py, and nothing   *)
(* in it reads the entry point.                                            *)

FetchLimits ==
    {m * PageCap + r : m \in 0..MaxPages, r \in (0 - MaxOff)..MaxOff} \cap Nat

InitFetch ==
    /\ entry = "web"
    /\ arg = ProfileDid
    /\ fmt = "json"
    /\ limit \in FetchLimits
    /\ pc = "loop"
    /\ actor = ProfileDid
    /\ handle = ProfileHandle
    /\ FetchIdle /\ CallerIdle /\ FeedIdle /\ FnIdle

NextFetch ==
    \/ SendRequest
    \/ LoopExit
    \/ ReceiveResponse

SpecFetch == InitFetch /\ [][NextFetch]_vars

(* the interpreter runs the loop on: the loop test is taken, and a request *)
(* in flight is answered or fails within its timeout of 10 seconds         *)
FairFetch == SpecFetch /\ WF_vars(NextFetch)

FetchReturned == pc \in {"fetched", "raised"}

-----------------------------------------------------------------------------
(* fetch_user_posts alone, against the simulated feed, no request failing *)

InitFeed ==
    /\ entry \in {"web", "cli"}
    /\ arg = ProfileDid
    /\ fmt = "json"
    /\ limit \in FetchLimits
    /\ feedLen \in FetchLimits
    /\ feedStyle \in {"whenMore", "always"}
    /\ pc = "loop"
    /\ actor = ProfileDid
    /\ handle = ProfileHandle
    /\ FetchIdle /\ CallerIdle /\ FnIdle

NextFeed ==
    \/ SendRequest
    \/ LoopExit
    \/ FeedServe

SpecFeed == InitFeed /\ [][NextFeed]_vars

-----------------------------------------------------------------------------
(* The identity lookup of the web service and of the handle helper *)

HandleChars == {"a", ".", "@"}

RECURSIVE StringsUpTo(_, _)
StringsUpTo(chars, n) ==
    IF n = 0 THEN {<<>>}
    ELSE LET shorter == StringsUpTo(chars, n - 1)
         IN  shorter \cup {Append(s, c) : s \in shorter, c \in chars}

HandleInputs ==
    {p \o b : p \in {<<>>, <<"@">>, Str_did}, b \in StringsUpTo(HandleChars, MaxBody)}

InitNorm ==
    /\ entry \in {"web", "helper"}
    /\ arg \in HandleInputs
    /\ fmt = "json"
    /\ limit = 0
    /\ pc = "start"
    /\ actor = <<>>
    /\ handle = <<>>
    /\ FetchIdle /\ CallerIdle /\ FeedIdle /\ FnIdle

NextNorm ==
    \/ WebResolve
    \/ HelperMain

SpecNorm == InitNorm /\ [][NextNorm]_vars

-----------------------------------------------------------------------------
(* extract_post_summary on its own *)

UriChars == {"/", "x", "y"}

UrlHandles == {<<>>, Str_Unknown, ProfileHandle}

InitUrl ==
    /\ entry = "none"
    /\ arg = <<>>
    /\ fmt = "json"
    /\ limit = 0
    /\ pc = "call"
    /\ actor = <<>>
    /\ handle = <<>>
    /\ fnIn \in [variant : {"web", "cli"}, handle : UrlHandles,
                 uri : StringsUpTo(UriChars, MaxUri)]
    /\ fnOut = NoResult
    /\ FetchIdle /\ CallerIdle /\ FeedIdle

NextUrl == ExtractPostSummary

SpecUrl == InitUrl /\ [][NextUrl]_vars

-----------------------------------------------------------------------------
(* _get_relative_time on its own *)

Elapsed ==
    {k * u + d : k \in 0..MaxMult, u \in {1, 60, 3600, 86400},
                 d \in (0 - MaxDelta)..MaxDelta}

InitRel ==
    /\ entry = "none"
    /\ arg = <<>>
    /\ fmt = "json"
    /\ limit = 0
    /\ pc = "call"
    /\ actor = <<>>
    /\ handle = <<>>
    /\ fnIn \in Elapsed
    /\ fnOut = NoResult
    /\ FetchIdle /\ CallerIdle /\ FeedIdle

NextRel == GetRelativeTime

SpecRel == InitRel /\ [][NextRel]_vars

-----------------------------------------------------------------------------
(* Properties *)

CeilDiv(a, b) == (a + b - 1) \div b

ReportBuilt == report.kind \in {"success", "json", "csv"}

LookupFailed == lookups # <<>> /\ lookups[1][2] = "error"

NoNetwork == lookups = <<>> /\ reqCount = 0

(* C1: whatever the upstream answers, pages larger than asked for          *)
(* included, the list fetch_user_posts returns is no longer than limit,    *)
(* and so are the report's posts list and its post_count.                  *)
C1_WithinLimit ==
    /\ pc = "fetched" => Len(posts) <= limit
    /\ ReportBuilt => Len(report.posts) <= limit /\ report.post_count <= limit

(* C2: against a feed of feedLen entries served in order in pages of at    *)
(* most PageCap entries, no request failing, fetch_user_posts returns the  *)
(* first min(limit, feedLen) entries of the feed in upstream order, after  *)
(* ceil(min(limit, feedLen) / PageCap) requests or one more.               *)
C2_FeedPrefix ==
    pc = "fetched" =>
        /\ posts = Page(0, Min(limit, feedLen))
        /\ reqCount \in {CeilDiv(Min(limit, feedLen), PageCap),
                         CeilDiv(Min(limit, feedLen), PageCap) + 1}

C2_Witness ==
    /\ pc = "fetched" /\ limit > PageCap /\ feedLen > PageCap
    /\ reqCount = 2 /\ Len(posts) = Min(limit, feedLen)

(* C3 as stated: whatever the upstream answers, the fetch loop issues at   *)
(* most ceil(limit / PageCap) + 1 requests.                                *)
C3_AtMostCeilPlusOne == reqCount <= CeilDiv(limit, PageCap) + 1

(* C3 as amended: whatever the upstream answers, the fetch loop ends, and  *)
(* it issues at most limit requests; at most ceil(limit / PageCap) + 1     *)
(* when no non-empty page holds fewer entries than were asked for.         *)
C3_Terminates ==
    /\ [](/\ reqCount <= limit
          /\ ~shortPage => reqCount <= CeilDiv(limit, PageCap) + 1)
    /\ <>FetchReturned

C3_Witness ==
    /\ pc = "fetched" /\ shortPage
    /\ reqCount = limit /\ limit > CeilDiv(limit, PageCap) + 1

(* C4: when a feed request fails, no further request is issued, nothing is *)
(* raised, and the posts returned are the pages of the earlier requests    *)
(* in order: as when that request answers with an empty feed.              *)
C4_FailureReturnsPartial ==
    (lastResp.kind = "error" \/ (lastResp.kind = "page" /\ lastResp.size = 0))
        => /\ pc = "fetched"
           /\ posts = delivered
           /\ Len(delivered) >= reqCount - 1

C4_Witness ==
    /\ lastResp.kind = "error" /\ pc = "fetched"
    /\ reqCount >= 2 /\ posts # <<>>

(* C5 as stated: in the web and in the command-line report alike, a failed *)
(* identity lookup ends in an error result and no feed request is issued.  *)
C5_FailedLookupStopsAll ==
    LookupFailed =>
        /\ reqCount = 0
        /\ pc \in {"done", "exit"} => (report.kind = "error" \/ exitCode >= 1)

(* C5 as amended: feed requests are issued only after the identity lookup. *)
(* In the web report a failed lookup ends in an error result with no feed  *)
(* request, and feed requests follow a successful lookup only.  In the     *)
(* command-line report a failed lookup leaves the handle "Unknown" and the *)
(* feed requests are issued all the same.                                  *)
C5_LookupGatesFetch ==
    /\ reqCount > 0 => Len(lookups) = 1
    /\ entry = "web" /\ LookupFailed =>
           reqCount = 0 /\ pc = "done" /\ report.kind = "error"
    /\ entry = "web" /\ reqCount > 0 => lookups[1][2] \in {"ok", "nohandle"}
    /\ entry = "cli" /\ LookupFailed => handle = Str_Unknown
    /\ entry = "cli" /\ LookupFailed /\ pc = "loop" /\ reqCount = 0 /\ limit > 0
           => ENABLED SendRequest

C5_Witness ==
    entry = "web" /\ LookupFailed /\ pc = "done" /\ report.kind = "error"

(* What C6 says is sent to the lookup: a DID unchanged, otherwise the      *)
(* input without a leading "@", with ".bsky.social" when it holds no "."   *)
C6_Normalized(h) ==
    IF StartsWith(h, Str_did) THEN h
    ELSE LET t == IF h # <<>> /\ Head(h) = "@" THEN Tail(h) ELSE h
         IN  IF \E i \in 1..Len(t) : t[i] = "." THEN t ELSE t \o Str_bsky

(* C6: the identifier sent to the identity lookup is the input normalised: *)
(* a leading "@" stripped, ".bsky.social" appended when no "." is left,    *)
(* and an input starting with "did:" passed through unchanged.             *)
C6_LookupActor ==
    \A i \in 1..Len(lookups) : lookups[i][1] = C6_Normalized(arg)

(* C7: post_url is the profile URL of handle and short ID exactly when the *)
(* handle is known (resolved and not empty) and the last "/"-separated     *)
(* segment of the URI is not empty; otherwise it is the empty string.      *)
C7_PostUrl ==
    fnOut.done =>
        LET h == fnIn.handle
            known == h # <<>> /\ (fnIn.variant = "cli" => h # Str_Unknown)
            shortId == LastSegment(fnIn.uri, "/")
        IN  fnOut.val = IF known /\ shortId # <<>>
                        THEN Str_profile \o h \o Str_post \o shortId
                        ELSE <<>>

(* C8 as stated: the command-line run exits with 1 and without a network   *)
(* request when the argument does not start with "did:", with 1 on an      *)
(* interrupt or an unhandled exception, and with 0 in every other run.     *)
C8_ExitZeroOrOne ==
    entry = "cli" /\ pc = "exit" =>
        IF ~StartsWith(arg, Str_did) THEN exitCode = 1 /\ NoNetwork
        ELSE IF fault \in {"interrupt", "exception"} THEN exitCode = 1
        ELSE exitCode = 0

(* C8 as amended: a command line argparse rejects (a format other than     *)
(* json and csv) ends the run with 2 and without a network request.  Of    *)
(* the command lines it accepts: an argument that does not start with      *)
(* "did:" ends the run with 1 and without a network request, an interrupt  *)
(* or an unhandled exception ends it with 1, and every other run ends with *)
(* 0, failed lookups and failed feed requests included.                    *)
C8_ExitCodes ==
    entry = "cli" /\ pc = "exit" =>
        IF fmt \notin {"json", "csv"} THEN exitCode = 2 /\ NoNetwork
        ELSE IF ~StartsWith(arg, Str_did) THEN exitCode = 1 /\ NoNetwork
        ELSE IF fault \in {"interrupt", "exception"} THEN exitCode = 1
        ELSE exitCode = 0

C8_Witness ==
    /\ entry = "cli" /\ pc = "exit" /\ exitCode = 0
    /\ LookupFailed /\ lastResp.kind = "error" /\ ReportBuilt

C10_RequestShape ==
    pc = "await" =>
        /\ req.limit = Min(PageCap, limit - Len(delivered))
        /\ req.limit \in 1..PageCap
        /\ reqCount = 1 => req.cursor = NoCursor
        /\ reqCount > 1 =>
               /\ lastResp.kind = "page" /\ lastResp.size > 0
               /\ lastResp.cursor \notin {NoCursor, EmptyCursor}
               /\ req.cursor = lastResp.cursor

C10_Witness ==
    /\ pc = "await" /\ reqCount = 2
    /\ req.limit < PageCap /\ req.cursor = 1

====
